---- MODULE Spec2Model ----
(***************************************************************************)
(* Model of jira_api_fetcher: JiraConnection, JiraApiError (etc.py) and    *)
(* JiraApiFetcher (module.py) with its three retrieval operations          *)
(* fetch_array, fetch_paginated and fetch_issues.                          *)
(*                                                                         *)
(* Representation of Python values:                                        *)
(*   - an optional argument (None or a value) is a record                  *)
(*     [some |-> BOOLEAN, val |-> v];                                      *)
(*   - fields_str is a sequence of one-character strings, so that          *)
(*     str.split can be computed;                                          *)
(*   - params_json is a sequence of JSON tokens, so that json.loads can    *)
(*     be computed;                                                        *)
(*   - a URL is a record [scheme, netloc, abs, segs];                      *)
(*   - a dict (request params) is a function from key strings to values;   *)
(*   - requests.get is the environment: every call of _get_response        *)
(*     appends the request to `requests` and draws the response from the   *)
(*     server.                                                             *)
(***************************************************************************)
EXTENDS Integers, Sequences, FiniteSets, TLC

VARIABLES
    connection,     \* self.connection: the JiraConnection held by the fetcher
    server,         \* the remote API: answers freely, or holds a fixed issue list
    op,             \* the operation of the current call
    pc,             \* position of the call: "idle", "loop", "done"
    endpoint,       \* argument endpoint
    fetch_size,     \* argument fetch_size
    params_json,    \* argument params_json of fetch_paginated
    fields_str,     \* argument fields_str of fetch_issues
    jql,            \* argument jql of fetch_issues
    url,            \* local url
    fields,         \* local fields of fetch_issues
    start_at,       \* local start_at
    has_next,       \* local has_next of fetch_paginated
    total_items,    \* local total_items of fetch_issues
    data,           \* local data of fetch_paginated
    fetched_issues, \* local fetched_issues of fetch_issues
    requests,       \* the calls of requests.get made by the current call, in order
    responses,      \* the responses received by the current call, in order
    outcome,        \* "none", "return" or "raise"
    result,         \* the returned value when outcome = "return"
    error,          \* the raised exception when outcome = "raise"
    earlier_calls,  \* whether the fetcher has completed a call before this one
    frames          \* the frames of the calls that threads run concurrently

vars == <<connection, server, op, pc, endpoint, fetch_size, params_json,
          fields_str, jql, url, fields, start_at, has_next, total_items,
          data, fetched_issues, requests, responses, outcome, result, error,
          earlier_calls, frames>>

argvars == <<endpoint, fetch_size, params_json, fields_str, jql>>

----------------------------------------------------------------------------
(* Bounds of the model *)

SeqsUpTo(S, n) == UNION {[1..k -> S] : k \in 0..n}

MaxPages == 3           \* requests of one fetch_paginated call against a free server
MaxIssuePages == 2      \* requests of one fetch_issues call against a free server
MaxConcPages == 2       \* requests of one call that runs beside another call
MaxTotal == 2           \* `total` reported by a free server is 0..MaxTotal
MaxFetchSize == 2       \* fetch_size ranges over MinFetchSize..MaxFetchSize
MaxN == 4               \* length of the issue list held by a fixed server

MinFetchSize == 0 - 1

FetchSizes == MinFetchSize..MaxFetchSize

\* the JSON items a free server puts in its pages: {"id": 1}, {"id": 2}
Items == {[id |-> 1], [id |-> 2]}

\* the `values` / `issues` of one page of a free server: empty, one item, or
\* two items in either order or twice the same
PageItems == SeqsUpTo(Items, 2)

----------------------------------------------------------------------------
(* Generic helpers *)

Min(a, b) == IF a < b THEN a ELSE b

Max(a, b) == IF a < b THEN b ELSE a

CeilDiv(a, b) == (a + b - 1) \div b

RECURSIVE Flatten(_)
Flatten(ss) == IF ss = <<>> THEN <<>> ELSE Head(ss) \o Flatten(Tail(ss))

\* Python None / a present value
None(default) == [some |-> FALSE, val |-> default]

Some(v) == [some |-> TRUE, val |-> v]

----------------------------------------------------------------------------
(* etc.py *)

\* JiraConnection(base_url, username, token)
JiraConnection(base_url, username, token) ==
    [base_url |-> base_url, username |-> username, token |-> token]

\* JiraApiError(message, status_code)
JiraApiError(message, status_code) ==
    [type |-> "JiraApiError", message |-> message, status_code |-> status_code]

\* mutant: the class keeps Exception.__str__, which shows the message alone
JiraApiErrorStr_MessageOnly(e) == e.message

\* JiraApiError.__str__
JiraApiErrorStr(e) ==
    e.message \o " (Status Code: " \o ToString(e.status_code) \o ")"

\* the built-in exceptions raised by the fetcher carry no status code
ValueError(message) ==
    [type |-> "ValueError", message |-> message, status_code |-> 0]

JSONDecodeError ==
    [type |-> "JSONDecodeError", message |-> "", status_code |-> 0]

TypeError ==
    [type |-> "TypeError", message |-> "", status_code |-> 0]

NoError == [type |-> "", message |-> "", status_code |-> 0]

----------------------------------------------------------------------------
(* URLs and urllib.parse.urljoin *)

Url(scheme, netloc, abs, segs) ==
    [scheme |-> scheme, netloc |-> netloc, abs |-> abs, segs |-> segs]

\* the empty string as a URL reference
EmptyRef == Url("", "", FALSE, <<>>)

NoUrl == EmptyRef

\* all but the last path segment
DirOf(segs) == IF segs = <<>> THEN <<>> ELSE SubSeq(segs, 1, Len(segs) - 1)

\* urllib.parse.urljoin(base, ref) for references without query, fragment
\* and dot segments
UrlJoin(base, ref) ==
    IF ref = EmptyRef THEN base
    ELSE IF ref.scheme # "" /\ ref.scheme # base.scheme THEN ref
    ELSE IF ref.netloc # "" THEN Url(base.scheme, ref.netloc, ref.abs, ref.segs)
    ELSE IF ref.abs THEN Url(base.scheme, base.netloc, TRUE, ref.segs)
    ELSE Url(base.scheme, base.netloc, TRUE, DirOf(base.segs) \o ref.segs)

----------------------------------------------------------------------------
(* str.split *)

\* index of the first sep in s at or after i, 0 when there is none
RECURSIVE FindFrom(_, _, _)
FindFrom(s, sep, i) ==
    IF i > Len(s) THEN 0
    ELSE IF s[i] = sep THEN i
    ELSE FindFrom(s, sep, i + 1)

\* s.split(sep) for a one-character sep: never empty, "" gives [""]
RECURSIVE Split(_, _)
Split(s, sep) ==
    LET i == FindFrom(s, sep, 1) IN
    IF i = 0 THEN <<s>>
    ELSE <<SubSeq(s, 1, i - 1)>> \o Split(SubSeq(s, i + 1, Len(s)), sep)

----------------------------------------------------------------------------
(* json.loads of the params_json texts: a token sequence of punctuation,    *)
(* string literals and integer literals                                    *)

Punct(c) == [t |-> "punct", s |-> c, n |-> 0]

Str(x) == [t |-> "str", s |-> x, n |-> 0]

Num(k) == [t |-> "num", s |-> "", n |-> k]

\* the outcome of json.loads: a dict, another JSON value, or JSONDecodeError
JsonObject(d) == [kind |-> "object", dict |-> d]

JsonOther == [kind |-> "other", dict |-> <<>>]

JsonInvalid == [kind |-> "invalid", dict |-> <<>>]

\* d[k] = v
DictPut(d, k, v) ==
    [x \in DOMAIN d \cup {k} |-> IF x = k THEN v ELSE d[x]]

\* mutant: {**b, **a}, the left map wins on a key collision
DictMerge_LeftWins(a, b) ==
    [x \in DOMAIN a \cup DOMAIN b |-> IF x \in DOMAIN a THEN a[x] ELSE b[x]]

\* {**a, **b}
DictMerge(a, b) ==
    [x \in DOMAIN a \cup DOMAIN b |-> IF x \in DOMAIN b THEN b[x] ELSE a[x]]

\* the members of an object from token i on: "key" : number, then , or }
RECURSIVE ParseMembers(_, _, _)
ParseMembers(toks, i, acc) ==
    IF i + 3 > Len(toks) THEN JsonInvalid
    ELSE IF toks[i].t # "str" \/ toks[i + 1] # Punct(":") \/ toks[i + 2].t # "num"
         THEN JsonInvalid
    ELSE LET acc2 == DictPut(acc, toks[i].s, toks[i + 2].n) IN
         IF toks[i + 3] = Punct("}")
         THEN IF i + 3 = Len(toks) THEN JsonObject(acc2) ELSE JsonInvalid
         ELSE IF toks[i + 3] = Punct(",")
         THEN ParseMembers(toks, i + 4, acc2)
         ELSE JsonInvalid

JsonLoads(toks) ==
    IF toks = <<>> THEN JsonInvalid
    ELSE IF Len(toks) = 1
         THEN IF toks[1].t \in {"str", "num"} THEN JsonOther ELSE JsonInvalid
    ELSE IF toks = <<Punct("["), Punct("]")>> THEN JsonOther
    ELSE IF toks = <<Punct("{"), Punct("}")>> THEN JsonObject(<<>>)
    ELSE IF toks[1] = Punct("{") THEN ParseMembers(toks, 2, <<>>)
    ELSE JsonInvalid

----------------------------------------------------------------------------
(* The remote API behind requests.get *)

Response(status_code, text, json) ==
    [status_code |-> status_code, text |-> text, json |-> json]

\* a JSON document returned to fetch_array: an array or an object
Doc(kind, items) == [kind |-> kind, items |-> items]

NoDoc == Doc("none", <<>>)

Docs == {Doc("array", <<>>), Doc("array", <<[id |-> 1], [id |-> 2]>>),
         Doc("object", <<[id |-> 1]>>)}

\* a page of the generic pagination
Page(isLast, values) == [isLast |-> isLast, values |-> values]

\* a page of the issue search
IssuePage(total, issues) == [total |-> total, issues |-> issues]

ErrorStatuses == {404, 500}

ErrorTexts == {"error message", ""}

OkText == "<json>"

\* what a free server may answer to a request of each operation
ArrayResponses ==
    {Response(200, OkText, d) : d \in Docs}
        \cup {Response(sc, t, NoDoc) : sc \in ErrorStatuses, t \in ErrorTexts}

PaginatedResponses ==
    {Response(200, OkText, Page(l, v)) : l \in BOOLEAN, v \in PageItems}
        \cup {Response(sc, t, Page(TRUE, <<>>)) : sc \in ErrorStatuses, t \in ErrorTexts}

IssueResponses ==
    {Response(200, OkText, IssuePage(n, v)) : n \in 0..MaxTotal, v \in PageItems}
        \cup {Response(sc, t, IssuePage(0, <<>>)) : sc \in ErrorStatuses, t \in ErrorTexts}

FreeServer == [mode |-> "free", issues |-> <<>>]

\* a server holding the fixed list of issues {"id": 1} .. {"id": n}
FixedServer(n) == [mode |-> "fixed", issues |-> [i \in 1..n |-> [id |-> i]]]

\* the answer of a fixed server: status 200, total = N and the issues from
\* position startAt up to maxResults of them
FixedAnswer(srv, params) ==
    LET N == Len(srv.issues)
        first == params["startAt"] + 1
        last == Min(N, params["startAt"] + params["maxResults"])
    IN Response(200, OkText, IssuePage(N, SubSeq(srv.issues, first, last)))

IssueAnswers(srv, params) ==
    IF srv.mode = "fixed" THEN {FixedAnswer(srv, params)} ELSE IssueResponses

\* the requests one fetch_issues call may make in the model: a fixed server
\* of N issues needs at most max(1, N) of them
IssuePagesCap(srv) ==
    IF srv.mode = "fixed" THEN Len(srv.issues) + 2 ELSE MaxIssuePages

----------------------------------------------------------------------------
(* module.py: JiraApiFetcher *)

DEFAULT_HEADERS == [ContentType |-> "application/json"]

\* _get_url, line 155: endpoint is None or bool(endpoint) is False
EndpointMissing(ep) == ~ep.some \/ ep.val = EmptyRef

\* mutant: base_url + endpoint instead of urljoin
_get_url_concat(conn, ep) ==
    Url(conn.base_url.scheme, conn.base_url.netloc, TRUE,
        conn.base_url.segs \o ep.val.segs)

\* _get_url, line 158
_get_url(conn, ep) == UrlJoin(conn.base_url, ep.val)

\* mutant: only a negative fetch size is rejected
FetchSizeInvalid_Negative(fs) == fs < 0

\* fetch_paginated line 64, fetch_issues line 125
FetchSizeInvalid(fs) == fs < 1

\* mutant: jql is sent even when it is None
_get_params_always_jql(fs, flds, q, sa) ==
    LET base == [k \in {"startAt", "maxResults", "jql"} |->
                    IF k = "startAt" THEN sa
                    ELSE IF k = "maxResults" THEN fs ELSE q.val]
    IN IF flds.some THEN DictPut(base, "fields", flds.val) ELSE base

\* _get_params
_get_params(fs, flds, q, sa) ==
    LET base == [k \in {"startAt", "maxResults"} |->
                    IF k = "startAt" THEN sa ELSE fs]
        withJql == IF q.some THEN DictPut(base, "jql", q.val) ELSE base
    IN IF flds.some THEN DictPut(withJql, "fields", flds.val) ELSE withJql

\* mutant: a call without params sends the first-page offset
_get_response_default_offset(conn, u, params) ==
    [url |-> u,
     headers |-> DEFAULT_HEADERS,
     auth |-> <<conn.username, conn.token>>,
     params |-> IF params.some THEN params.val ELSE [k \in {"startAt"} |-> 0]]

\* the call of requests.get made by _get_response; params None becomes {}
_get_response(conn, u, params) ==
    [url |-> u,
     headers |-> DEFAULT_HEADERS,
     auth |-> <<conn.username, conn.token>>,
     params |-> IF params.some THEN params.val ELSE <<>>]

\* mutant: the text is not split, the list holds it whole
split_fields_whole(fstr) ==
    IF fstr.some /\ fstr.val # <<>> THEN Some(<<fstr.val>>) ELSE None(<<>>)

\* fetch_issues, lines 128-131: a falsy fields_str (None or "") gives no fields
split_fields(fstr) ==
    IF fstr.some /\ fstr.val # <<>> THEN Some(Split(fstr.val, ",")) ELSE None(<<>>)

\* mutant: a params_json that does not parse is ignored
paginated_params_lenient(sa, fs, pj) ==
    LET params == [k \in {"startAt", "maxResults"} |->
                      IF k = "startAt" THEN sa ELSE fs]
        add_params == JsonLoads(pj.val)
    IN IF ~pj.some \/ add_params.kind = "invalid"
       THEN [raises |-> NoError, params |-> params]
       ELSE IF add_params.kind = "other"
            THEN [raises |-> TypeError, params |-> params]
       ELSE [raises |-> NoError, params |-> DictMerge(params, add_params.dict)]

\* fetch_paginated, lines 74-84: the params of one request, or the exception
\* raised while building them
paginated_params(sa, fs, pj) ==
    LET params == [k \in {"startAt", "maxResults"} |->
                      IF k = "startAt" THEN sa ELSE fs]
        add_params == JsonLoads(pj.val)
    IN IF ~pj.some THEN [raises |-> NoError, params |-> params]
       ELSE IF add_params.kind = "invalid"
            THEN [raises |-> JSONDecodeError, params |-> params]
       ELSE IF add_params.kind = "other"
            THEN [raises |-> TypeError, params |-> params]
       ELSE [raises |-> NoError, params |-> DictMerge(params, add_params.dict)]

\* mutant: has_next is never cleared
HasNext_Always(page_data) == TRUE

\* mutant: has_next = page_data["isLast"]
HasNext_Negated(page_data) == page_data.isLast

\* fetch_paginated, line 93
HasNext(page_data) == ~page_data.isLast

\* list.extend, lines 96 and 148
Extend(list, more) == list \o more

\* mutant: the offset is never advanced
Advance_Never(sa, page_items) == sa

\* mutant: the offset counts pages, not items
Advance_ByOne(sa, page_items) == sa + 1

\* fetch_paginated line 98, fetch_issues line 150
Advance(sa, page_items) == sa + Len(page_items)

\* mutant: start_at <= total_items
IssuesLoopCond_Inclusive(sa, total) == sa <= total

\* fetch_issues, line 138: the loop condition
IssuesLoopCond(sa, total) == sa < total

\* mutant: total_items is not refreshed from the page
NextTotal_Stale(total, page_data) == total

\* mutant: total_items never drops below its placeholder
NextTotal_KeepsLarger(total, page_data) == Max(total, page_data.total)

\* fetch_issues, line 147
NextTotal(total, page_data) == page_data.total

\* the f-strings of lines 36, 89 and 143
ArrayErrorMsg(text) == "Failed to fetch data as array: " \o text

PaginatedErrorMsg(text) == "Failed to fetch paginated values: " \o text

IssuesErrorMsg(text) == "Failed to fetch issues: " \o text

\* mutant: only server errors are failures
StatusFailed_Only5xx(resp) == resp.status_code >= 500

\* lines 35, 88 and 142
StatusFailed(resp) == resp.status_code # 200

----------------------------------------------------------------------------
(* The arguments the caller passes *)

BaseUrls == {Url("https", "your-jira-instance.com", FALSE, <<>>),
             Url("https", "h.com", TRUE, <<"jira", "rest">>)}

\* two connections that differ in base URL and in credentials
Connections ==
    {JiraConnection(Url("https", "your-jira-instance.com", FALSE, <<>>),
                    "your-username", "your-token"),
     JiraConnection(Url("https", "h.com", TRUE, <<"jira", "rest">>),
                    "other-username", "other-token")}

\* endpoint: None, "", "/some/endpoint", "rest/api"
Endpoints == {None(EmptyRef), Some(EmptyRef),
              Some(Url("", "", TRUE, <<"some", "endpoint">>)),
              Some(Url("", "", FALSE, <<"rest", "api">>))}

\* texts that json.loads rejects: '', '{', '{"foo": 2,}'
MalformedTexts ==
    {Some(<<>>),
     Some(<<Punct("{")>>),
     Some(<<Punct("{"), Str("foo"), Punct(":"), Num(2), Punct(","), Punct("}")>>)}

\* params_json: None, the malformed texts, '3', '{}', '{"foo": 2}',
\* '{"startAt": 5}', '{"foo": 2, "maxResults": 7}'
ParamTexts ==
    MalformedTexts \cup
    {None(<<>>),
     Some(<<Num(3)>>),
     Some(<<Punct("{"), Punct("}")>>),
     Some(<<Punct("{"), Str("foo"), Punct(":"), Num(2), Punct("}")>>),
     Some(<<Punct("{"), Str("startAt"), Punct(":"), Num(5), Punct("}")>>),
     Some(<<Punct("{"), Str("foo"), Punct(":"), Num(2), Punct(","),
            Str("maxResults"), Punct(":"), Num(7), Punct("}")>>)}

\* fields_str: None, "", "a", "a,b", "a,"
FieldTexts == {None(<<>>), Some(<<>>), Some(<<"a">>), Some(<<"a", ",", "b">>),
               Some(<<"a", ",">>)}

\* jql: None, '', 'project="Foo"'
Jqls == {None(""), Some(""), Some("project=Foo")}

----------------------------------------------------------------------------
(* State machine *)

NoArgs ==
    /\ fetch_size' = 50
    /\ params_json' = None(<<>>)
    /\ fields_str' = None(<<>>)
    /\ jql' = None("")

NoLocals ==
    /\ fields' = None(<<>>)
    /\ start_at' = 0
    /\ has_next' = TRUE
    /\ total_items' = 0
    /\ data' = <<>>
    /\ fetched_issues' = <<>>

Raise(e) ==
    /\ pc' = "done"
    /\ outcome' = "raise"
    /\ error' = e
    /\ result' = <<>>

Return(v) ==
    /\ pc' = "done"
    /\ outcome' = "return"
    /\ error' = NoError
    /\ result' = v

Continue ==
    /\ pc' = "loop"
    /\ outcome' = "none"
    /\ error' = NoError
    /\ result' = <<>>

\* the threads that call the fetcher concurrently
Threads == {1, 2}

\* the frame of a thread that has not called yet
IdleFrame ==
    [op |-> "none", pc |-> "idle", fetch_size |-> 50, url |-> NoUrl,
     start_at |-> 0, has_next |-> TRUE, total_items |-> 0, data |-> <<>>,
     fetched_issues |-> <<>>, requests |-> <<>>, responses |-> <<>>, outcome |-> "none", result |-> <<>>, error |-> NoError]

InitCall ==
    /\ connection \in Connections
    /\ earlier_calls = FALSE
    /\ frames = [t \in Threads |-> IdleFrame]
    /\ op = "none"
    /\ pc = "idle"
    /\ endpoint = None(EmptyRef)
    /\ fetch_size = 50
    /\ params_json = None(<<>>)
    /\ fields_str = None(<<>>)
    /\ jql = None("")
    /\ url = NoUrl
    /\ fields = None(<<>>)
    /\ start_at = 0
    /\ has_next = TRUE
    /\ total_items = 0
    /\ data = <<>>
    /\ fetched_issues = <<>>
    /\ requests = <<>>
    /\ responses = <<>>
    /\ outcome = "none"
    /\ result = <<>>
    /\ error = NoError

Init ==
    /\ InitCall
    /\ server = FreeServer

\* mutant: fetch_array stores the resolved URL as the connection's base URL
fetch_array_rebases ==
    /\ pc = "idle"
    /\ \E ep \in Endpoints, response \in ArrayResponses :
        /\ op' = "fetch_array"
        /\ endpoint' = ep
        /\ NoArgs
        /\ NoLocals
        /\ IF EndpointMissing(ep)
           THEN /\ url' = NoUrl
                /\ requests' = <<>>
                /\ responses' = <<>>
                /\ Raise(ValueError("endpoint must not be empty"))
           ELSE /\ url' = _get_url(connection, ep)
                /\ requests' = <<_get_response(connection, url', None(<<>>))>>
                /\ responses' = <<response>>
                /\ IF StatusFailed(response)
                   THEN Raise(JiraApiError(ArrayErrorMsg(response.text),
                                           response.status_code))
                   ELSE Return(response.json)
    /\ connection' = IF EndpointMissing(endpoint') THEN connection
                      ELSE [connection EXCEPT !.base_url = url']
    /\ UNCHANGED <<server, earlier_calls, frames>>

\* fetch_array(endpoint), lines 31-39
fetch_array ==
    /\ pc = "idle"
    /\ \E ep \in Endpoints, response \in ArrayResponses :
        /\ op' = "fetch_array"
        /\ endpoint' = ep
        /\ NoArgs
        /\ NoLocals
        /\ IF EndpointMissing(ep)
           THEN /\ url' = NoUrl
                /\ requests' = <<>>
                /\ responses' = <<>>
                /\ Raise(ValueError("endpoint must not be empty"))
           ELSE /\ url' = _get_url(connection, ep)
                /\ requests' = <<_get_response(connection, url', None(<<>>))>>
                /\ responses' = <<response>>
                /\ IF StatusFailed(response)
                   THEN Raise(JiraApiError(ArrayErrorMsg(response.text),
                                           response.status_code))
                   ELSE Return(response.json)
    /\ UNCHANGED <<connection, server, earlier_calls, frames>>

\* fetch_paginated(endpoint, fetch_size, params_json), lines 62-70: up to the loop
fetch_paginated ==
    /\ pc = "idle"
    /\ \E ep \in Endpoints, fs \in FetchSizes, pj \in ParamTexts :
        /\ op' = "fetch_paginated"
        /\ endpoint' = ep
        /\ fetch_size' = fs
        /\ params_json' = pj
        /\ fields_str' = None(<<>>)
        /\ jql' = None("")
        /\ NoLocals
        /\ requests' = <<>>
        /\ responses' = <<>>
        /\ IF EndpointMissing(ep)
           THEN /\ url' = NoUrl
                /\ Raise(ValueError("endpoint must not be empty"))
           ELSE /\ url' = _get_url(connection, ep)
                /\ IF FetchSizeInvalid(fs)
                   THEN Raise(ValueError("fetch_size must be >= 1"))
                   ELSE Continue
    /\ UNCHANGED <<connection, server, earlier_calls, frames>>

\* fetch_paginated, lines 72-98: one iteration of the loop
fetch_paginated_page ==
    /\ op = "fetch_paginated"
    /\ pc = "loop"
    /\ has_next
    /\ Len(requests) < MaxPages
    /\ LET built == paginated_params(start_at, fetch_size, params_json) IN
       IF built.raises # NoError
       THEN /\ Raise(built.raises)
            /\ UNCHANGED <<requests, responses, has_next, data, start_at>>
       ELSE \E response \in PaginatedResponses :
            /\ requests' = Append(requests,
                                  _get_response(connection, url, Some(built.params)))
            /\ responses' = Append(responses, response)
            /\ IF StatusFailed(response)
               THEN /\ Raise(JiraApiError(PaginatedErrorMsg(response.text),
                                          response.status_code))
                    /\ UNCHANGED <<has_next, data, start_at>>
               ELSE /\ has_next' = HasNext(response.json)
                    /\ data' = Extend(data, response.json.values)
                    /\ start_at' = Advance(start_at, response.json.values)
                    /\ Continue
    /\ UNCHANGED <<connection, server, earlier_calls, frames, op, argvars, url, fields, total_items,
                   fetched_issues>>

\* fetch_paginated, lines 72 and 100: the loop ends and data is returned
fetch_paginated_return ==
    /\ op = "fetch_paginated"
    /\ pc = "loop"
    /\ ~has_next
    /\ Return(data)
    /\ UNCHANGED <<connection, server, earlier_calls, frames, op, argvars, url, fields, start_at,
                   has_next, total_items, data, fetched_issues, requests,
                   responses>>

\* fetch_issues(endpoint, fetch_size, fields_str, jql), lines 123-136: up to the loop
fetch_issues ==
    /\ pc = "idle"
    /\ \E ep \in Endpoints, fs \in FetchSizes, fstr \in FieldTexts, q \in Jqls :
        /\ op' = "fetch_issues"
        /\ endpoint' = ep
        /\ fetch_size' = fs
        /\ params_json' = None(<<>>)
        /\ fields_str' = fstr
        /\ jql' = q
        /\ start_at' = 0
        /\ has_next' = TRUE
        /\ data' = <<>>
        /\ fetched_issues' = <<>>
        /\ requests' = <<>>
        /\ responses' = <<>>
        /\ IF EndpointMissing(ep)
           THEN /\ url' = NoUrl
                /\ fields' = None(<<>>)
                /\ total_items' = 0
                /\ Raise(ValueError("endpoint must not be empty"))
           ELSE /\ url' = _get_url(connection, ep)
                /\ IF FetchSizeInvalid(fs)
                   THEN /\ fields' = None(<<>>)
                        /\ total_items' = 0
                        /\ Raise(ValueError("fetch_size must be >= 1"))
                   ELSE /\ fields' = split_fields(fstr)
                        /\ total_items' = fs
                        /\ Continue
    /\ UNCHANGED <<connection, server, earlier_calls, frames>>

\* fetch_issues, lines 138-150: one iteration of the loop
fetch_issues_page ==
    /\ op = "fetch_issues"
    /\ pc = "loop"
    /\ IssuesLoopCond(start_at, total_items)
    /\ Len(requests) < IssuePagesCap(server)
    /\ LET params == _get_params(fetch_size, fields, jql, start_at) IN
       \E response \in IssueAnswers(server, params) :
            /\ requests' = Append(requests,
                                  _get_response(connection, url, Some(params)))
            /\ responses' = Append(responses, response)
            /\ IF StatusFailed(response)
               THEN /\ Raise(JiraApiError(IssuesErrorMsg(response.text),
                                          response.status_code))
                    /\ UNCHANGED <<total_items, fetched_issues, start_at>>
               ELSE /\ total_items' = NextTotal(total_items, response.json)
                    /\ fetched_issues' = Extend(fetched_issues, response.json.issues)
                    /\ start_at' = Advance(start_at, response.json.issues)
                    /\ Continue
    /\ UNCHANGED <<connection, server, earlier_calls, frames, op, argvars, url, fields, has_next, data>>

\* fetch_issues, lines 138 and 152: the loop ends and fetched_issues is returned
fetch_issues_return ==
    /\ op = "fetch_issues"
    /\ pc = "loop"
    /\ ~IssuesLoopCond(start_at, total_items)
    /\ Return(fetched_issues)
    /\ UNCHANGED <<connection, server, earlier_calls, frames, op, argvars, url, fields, start_at,
                   has_next, total_items, data, fetched_issues, requests,
                   responses>>

\* the call has returned or raised: its frame is gone and the caller may call again
call_ends ==
    /\ pc = "done"
    /\ pc' = "idle"
    /\ op' = "none"
    /\ endpoint' = None(EmptyRef)
    /\ NoArgs
    /\ NoLocals
    /\ url' = NoUrl
    /\ requests' = <<>>
    /\ responses' = <<>>
    /\ outcome' = "none"
    /\ result' = <<>>
    /\ error' = NoError
    /\ earlier_calls' = TRUE
    /\ UNCHANGED <<connection, server, frames>>

Next ==
    \/ fetch_array
    \/ fetch_paginated
    \/ fetch_paginated_page
    \/ fetch_paginated_return
    \/ fetch_issues
    \/ fetch_issues_page
    \/ fetch_issues_return
    \/ call_ends

Spec == Init /\ [][Next]_vars

\* the same fetcher against a server that holds a fixed list of issues
InitFixed ==
    /\ InitCall
    /\ \E n \in 0..MaxN : server = FixedServer(n)

NextFixed ==
    \/ fetch_issues
    \/ fetch_issues_page
    \/ fetch_issues_return
    \/ call_ends

SpecFixed == InitFixed /\ [][NextFixed]_vars

\* one fetch_paginated call that keeps running: a thread that is in the loop
\* takes its next step
NextPaginated ==
    \/ fetch_paginated
    \/ fetch_paginated_page
    \/ fetch_paginated_return

\* a fetcher constructed with the connection of the tests
InitTestConnection ==
    /\ Init
    /\ connection = JiraConnection(Url("https", "your-jira-instance.com", FALSE, <<>>),
                                   "your-username", "your-token")

SpecPaginated ==
    /\ InitTestConnection
    /\ [][NextPaginated]_vars
    /\ WF_vars(fetch_paginated_page)
    /\ WF_vars(fetch_paginated_return)

\* one fetch_issues call that keeps running
NextSearch ==
    \/ fetch_issues
    \/ fetch_issues_page
    \/ fetch_issues_return

SpecSearch ==
    /\ InitTestConnection
    /\ [][NextSearch]_vars
    /\ WF_vars(fetch_issues_page)
    /\ WF_vars(fetch_issues_return)

----------------------------------------------------------------------------
(* Two threads calling the same fetcher: every call has its own frame of
   arguments and locals; self.connection is all the calls have in common *)

\* the endpoint and the page sizes the concurrent calls are made with
ConcEndpoint == Some(Url("", "", TRUE, <<"some", "endpoint">>))

ConcFetchSizes == {0, 1, MaxFetchSize}

ConcOps == {"fetch_paginated", "fetch_issues"}

ConcPageItems == {<<>>, <<[id |-> 1]>>}

\* what the server may answer to a request of a concurrent call
ConcResponses(o) ==
    IF o = "fetch_paginated"
    THEN {Response(200, OkText, Page(l, v)) : l \in BOOLEAN, v \in ConcPageItems}
            \cup {Response(500, "error message", Page(TRUE, <<>>))}
    ELSE {Response(200, OkText, IssuePage(n, v)) : n \in {0, MaxTotal},
                                                   v \in ConcPageItems}
            \cup {Response(500, "error message", IssuePage(0, <<>>))}

FrameRaise(fr, e) ==
    [fr EXCEPT !.pc = "done", !.outcome = "raise", !.error = e]

\* lines 62-70 and 123-136: the frame of a call when it reaches its loop, or
\* when it has raised before
NewFrame(conn, o, ep, fs) ==
    LET fr == [IdleFrame EXCEPT !.op = o, !.fetch_size = fs] IN
    IF EndpointMissing(ep)
    THEN FrameRaise(fr, ValueError("endpoint must not be empty"))
    ELSE IF FetchSizeInvalid(fs)
         THEN FrameRaise([fr EXCEPT !.url = _get_url(conn, ep)],
                         ValueError("fetch_size must be >= 1"))
         ELSE [fr EXCEPT !.pc = "loop",
                         !.url = _get_url(conn, ep),
                         !.total_items = IF o = "fetch_issues" THEN fs ELSE 0]

\* lines 72 and 138: the loop condition, start_at being read as sa
FrameLoops(fr, sa) ==
    IF fr.op = "fetch_paginated"
    THEN fr.has_next
    ELSE IssuesLoopCond(sa, fr.total_items)

\* lines 74-86 and 139-140: the request of one iteration is sent
FrameRequest(conn, fr, sa) ==
    LET params == IF fr.op = "fetch_paginated"
                  THEN paginated_params(sa, fr.fetch_size, None(<<>>)).params
                  ELSE _get_params(fr.fetch_size, None(<<>>), None(""), sa)
    IN [fr EXCEPT !.pc = "wait",
                  !.requests = Append(@, _get_response(conn, fr.url, Some(params)))]

\* lines 88-98 and 142-150: the response of that request is handled
FrameResponse(fr, response, sa) ==
    LET got == [fr EXCEPT !.responses = Append(@, response)] IN
    IF fr.op = "fetch_paginated"
    THEN IF StatusFailed(response)
         THEN FrameRaise(got, JiraApiError(PaginatedErrorMsg(response.text),
                                           response.status_code))
         ELSE [got EXCEPT !.pc = "loop",
                          !.has_next = HasNext(response.json),
                          !.data = Extend(@, response.json.values),
                          !.start_at = Advance(sa, response.json.values)]
    ELSE IF StatusFailed(response)
         THEN FrameRaise(got, JiraApiError(IssuesErrorMsg(response.text),
                                           response.status_code))
         ELSE [got EXCEPT !.pc = "loop",
                          !.total_items = NextTotal(@, response.json),
                          !.fetched_issues = Extend(@, response.json.issues),
                          !.start_at = Advance(sa, response.json.issues)]

\* lines 100 and 152: the accumulated list is returned
FrameReturn(fr) ==
    [fr EXCEPT !.pc = "done", !.outcome = "return",
               !.result = IF fr.op = "fetch_paginated"
                          THEN fr.data ELSE fr.fetched_issues]

\* mutant: start_at is kept in one place for all the calls of the fetcher
OffsetOf_Shared(fs, t) == fs[1].start_at

\* lines 67 and 133: start_at is a local variable of the running call
OffsetOf(fs, t) == fs[t].start_at

unchanged_by_threads ==
    UNCHANGED <<connection, server, earlier_calls, op, pc, argvars, url, fields,
                start_at, has_next, total_items, data, fetched_issues,
                requests, responses, outcome, result, error>>

\* thread t calls fetch_paginated or fetch_issues
thread_calls(t) ==
    /\ frames[t].pc = "idle"
    /\ \E o \in ConcOps, fs \in ConcFetchSizes :
        frames' = [frames EXCEPT ![t] = NewFrame(connection, o, ConcEndpoint, fs)]
    /\ unchanged_by_threads

\* the call of thread t sends the request of its next iteration
thread_requests(t) ==
    /\ frames[t].pc = "loop"
    /\ FrameLoops(frames[t], OffsetOf(frames, t))
    /\ Len(frames[t].requests) < MaxConcPages
    /\ frames' = [frames EXCEPT
                     ![t] = FrameRequest(connection, @, OffsetOf(frames, t))]
    /\ unchanged_by_threads

\* the call of thread t receives the response of its request
thread_receives(t) ==
    /\ frames[t].pc = "wait"
    /\ \E response \in ConcResponses(frames[t].op) :
        frames' = [frames EXCEPT
                      ![t] = FrameResponse(@, response, OffsetOf(frames, t))]
    /\ unchanged_by_threads

\* the loop of the call of thread t ends
thread_returns(t) ==
    /\ frames[t].pc = "loop"
    /\ ~FrameLoops(frames[t], OffsetOf(frames, t))
    /\ frames' = [frames EXCEPT ![t] = FrameReturn(@)]
    /\ unchanged_by_threads

NextConc ==
    \E t \in Threads :
        \/ thread_calls(t)
        \/ thread_requests(t)
        \/ thread_receives(t)
        \/ thread_returns(t)

SpecConc == InitTestConnection /\ [][NextConc]_vars

----------------------------------------------------------------------------
(* Properties *)

\* the items of the pages received so far, page after page
ReceivedValues == Flatten([i \in 1..Len(responses) |-> responses[i].json.values])

ReceivedIssues == Flatten([i \in 1..Len(responses) |-> responses[i].json.issues])

AllOk == \A i \in 1..Len(responses) : responses[i].status_code = 200

EndpointGiven == endpoint.some /\ endpoint.val # EmptyRef

\* C1: when every response has status 200, fetch_paginated returns exactly the
\* concatenation of the values of the pages it received, in page-arrival and
\* within-page order, duplicates kept; the page it stops at is the first one
\* whose isLast is true, and no request follows that page.
C1_PaginatedConcat ==
    (op = "fetch_paginated" /\ AllOk) =>
        /\ Len(requests) = Len(responses)
        /\ \A i \in 1..(Len(responses) - 1) : ~responses[i].json.isLast
        /\ (Len(responses) >= 1 /\ responses[Len(responses)].json.isLast)
              => (~has_next /\ (pc = "done" => outcome = "return"))
        /\ outcome = "return" =>
              /\ Len(responses) >= 1
              /\ responses[Len(responses)].json.isLast
              /\ result = ReceivedValues

\* three pages, the first with two values, a value occurring twice
C1_Witness ==
    /\ op = "fetch_paginated"
    /\ outcome = "return"
    /\ Len(responses) = 3
    /\ Len(responses[1].json.values) = 2
    /\ responses[2].json.values = <<[id |-> 2]>>
    /\ result = <<[id |-> 1], [id |-> 2], [id |-> 2], [id |-> 1]>>

\* C2: fetch_issues requests a further page only while startAt < totalItems,
\* startAt being the number of issues accumulated and totalItems the total of
\* the most recently received page; on return the result is the concatenation
\* of the issues of all received pages and is at least as long as the total
\* of the last page.
C2_IssuesLoop ==
    (op = "fetch_issues" /\ AllOk) =>
        /\ start_at = Len(fetched_issues)
        /\ fetched_issues = ReceivedIssues
        /\ Len(responses) >= 1 =>
              total_items = responses[Len(responses)].json.total
        /\ \A i \in 1..(Len(responses) - 1) :
              Len(Flatten([j \in 1..i |-> responses[j].json.issues]))
                  < responses[i].json.total
        /\ outcome = "return" =>
              /\ Len(responses) >= 1
              /\ result = ReceivedIssues
              /\ Len(result) >= responses[Len(responses)].json.total

\* the total shrinks between the pages and ends the loop
C2_Witness ==
    /\ op = "fetch_issues"
    /\ outcome = "return"
    /\ Len(responses) = 2
    /\ responses[1].json.total = 2
    /\ responses[2].json.total = 1
    /\ Len(result) = 1

\* C3: in fetch_paginated and fetch_issues the first response whose status is
\* not 200 is the last one: the requests issued are the pages fetched before
\* it plus one, the call has raised JiraApiError and returns nothing.
C3_AbortOnError ==
    op \in {"fetch_paginated", "fetch_issues"} =>
        \A i \in 1..Len(responses) :
            responses[i].status_code # 200 =>
                /\ i = Len(responses)
                /\ Len(requests) = i
                /\ \A j \in 1..(i - 1) : responses[j].status_code = 200
                /\ pc = "done"
                /\ outcome = "raise"
                /\ error.type = "JiraApiError"
                /\ result = <<>>

\* two pages were accumulated before the failing third request
C3_Witness ==
    /\ op = "fetch_paginated"
    /\ Len(responses) = 3
    /\ responses[3].status_code = 500
    /\ Len(data) = 3
    /\ outcome = "raise"

\* C4: an empty or absent endpoint (any operation) and a fetch size below 1
\* (fetch_paginated, fetch_issues) fail with ValueError and no request is
\* issued, whatever the other arguments are.
C4_InvalidArgument ==
    (op # "none" /\ (~EndpointGiven \/ (op # "fetch_array" /\ fetch_size < 1))) =>
        /\ pc = "done"
        /\ outcome = "raise"
        /\ error.type = "ValueError"
        /\ requests = <<>>

\* fetch size 0 with a malformed params_json: ValueError comes first
C4_Witness ==
    /\ op = "fetch_paginated"
    /\ EndpointGiven
    /\ fetch_size = 0
    /\ params_json \in MalformedTexts
    /\ error.type = "ValueError"
    /\ requests = <<>>

\* C5: fetch_paginated with a valid endpoint, fetch size >= 1 and a
\* params_json that is not valid JSON raises the JSON decode error itself and
\* issues no request.
C5_MalformedParams ==
    (op = "fetch_paginated" /\ EndpointGiven /\ fetch_size >= 1
        /\ params_json \in MalformedTexts) =>
        /\ requests = <<>>
        /\ pc = "done" => (outcome = "raise" /\ error = JSONDecodeError)

C5_Witness ==
    /\ op = "fetch_paginated"
    /\ EndpointGiven
    /\ fetch_size = 1
    /\ params_json = Some(<<Punct("{")>>)
    /\ outcome = "raise"
    /\ error.type = "JSONDecodeError"

\* C6: fetch_array with a non-empty endpoint issues exactly one GET, with no
\* query parameters; on status 200 it returns the parsed body unchanged,
\* otherwise it raises JiraApiError and returns nothing.
C6_FetchArray ==
    (op = "fetch_array" /\ EndpointGiven) =>
        /\ pc = "done"
        /\ Len(requests) = 1
        /\ Len(responses) = 1
        /\ DOMAIN requests[1].params = {}
        /\ IF responses[1].status_code = 200
           THEN outcome = "return" /\ result = responses[1].json
           ELSE outcome = "raise" /\ error.type = "JiraApiError"

C6_Witness ==
    /\ op = "fetch_array"
    /\ outcome = "return"
    /\ result = Doc("object", <<[id |-> 1]>>)
    /\ Len(requests) = 1

\* the operation's own message prefix
C7_Prefix ==
    IF op = "fetch_array" THEN "Failed to fetch data as array"
    ELSE IF op = "fetch_paginated" THEN "Failed to fetch paginated values"
    ELSE "Failed to fetch issues"

C7_Decimal(n) == IF n = 404 THEN "404" ELSE IF n = 500 THEN "500" ELSE "?"

\* C7: the JiraApiError raised for a non-200 response carries the status code
\* of that response and the message "<prefix>: <raw body>", the prefix being the
\* operation's own; its string form is "<message> (Status Code: <code>)".
C7_ErrorContent ==
    (outcome = "raise" /\ error.type = "JiraApiError") =>
        LET failed == responses[Len(responses)] IN
        /\ failed.status_code # 200
        /\ error.status_code = failed.status_code
        /\ error.message = C7_Prefix \o ": " \o failed.text
        /\ JiraApiErrorStr(error) =
              C7_Prefix \o ": " \o failed.text \o " (Status Code: "
                  \o C7_Decimal(failed.status_code) \o ")"

C7_Witness ==
    /\ op = "fetch_array"
    /\ outcome = "raise"
    /\ error.type = "JiraApiError"
    /\ JiraApiErrorStr(error)
          = "Failed to fetch data as array: error message (Status Code: 500)"

\* the params_json text has a member with this key
C8_ExtraHasKey(k) ==
    params_json.some /\ \E i \in DOMAIN params_json.val : params_json.val[i] = Str(k)

\* the number of values received in the pages before request i
C8_ValuesBefore(i) ==
    Len(Flatten([j \in 1..(i - 1) |-> responses[j].json.values]))

\* C8 as stated: every request of fetch_paginated has startAt equal to the
\* number of values received in the earlier pages (0 for the first) and
\* maxResults equal to the fetch size.
C8_Original ==
    op = "fetch_paginated" =>
        \A i \in 1..Len(requests) :
            /\ requests[i].params["startAt"] = C8_ValuesBefore(i)
            /\ requests[i].params["maxResults"] = fetch_size

\* C8 amended: the local start_at is the number of values received so far;
\* a request carries startAt equal to the number of values received in the
\* earlier pages unless params_json has a startAt member, and maxResults
\* equal to the fetch size unless params_json has a maxResults member.
C8_Offsets ==
    op = "fetch_paginated" =>
        /\ start_at = C8_ValuesBefore(Len(responses) + 1)
               \/ (Len(responses) >= 1
                      /\ responses[Len(responses)].status_code # 200)
        /\ \A i \in 1..Len(requests) :
            /\ "startAt" \in DOMAIN requests[i].params
            /\ "maxResults" \in DOMAIN requests[i].params
            /\ ~C8_ExtraHasKey("startAt") =>
                  requests[i].params["startAt"] = C8_ValuesBefore(i)
            /\ ~C8_ExtraHasKey("maxResults") =>
                  requests[i].params["maxResults"] = fetch_size

\* offsets 0, 2, 2 after a page of two values and an empty page
C8_Witness ==
    /\ op = "fetch_paginated"
    /\ ~params_json.some
    /\ Len(requests) = 3
    /\ requests[1].params["startAt"] = 0
    /\ requests[2].params["startAt"] = 2
    /\ requests[3].params["startAt"] = 2
    /\ requests[3].params["maxResults"] = 2

\* C9: every request of a fetch_issues call carries startAt and maxResults
\* (the fetch size), carries jql exactly when a jql was given, and carries the
\* same fields parameter on every page: ["a", "b"] for fields_str "a,b", none
\* when fields_str is omitted.
C9_IssueParams ==
    op = "fetch_issues" =>
        \A i \in 1..Len(requests) :
            LET p == requests[i].params IN
            /\ {"startAt", "maxResults"} \subseteq DOMAIN p
            /\ DOMAIN p \subseteq {"startAt", "maxResults", "jql", "fields"}
            /\ p["maxResults"] = fetch_size
            /\ "jql" \in DOMAIN p <=> jql.some
            /\ jql.some => p["jql"] = jql.val
            /\ "fields" \in DOMAIN p <=> "fields" \in DOMAIN requests[1].params
            /\ "fields" \in DOMAIN p => p["fields"] = requests[1].params["fields"]
            /\ fields_str = Some(<<"a", ",", "b">>) =>
                  ("fields" \in DOMAIN p /\ p["fields"] = <<(<<"a">>), (<<"b">>)>>)
            /\ ~fields_str.some => "fields" \notin DOMAIN p

C9_Witness ==
    /\ op = "fetch_issues"
    /\ fields_str = Some(<<"a", ",", "b">>)
    /\ fetch_size = 2
    /\ ~jql.some
    /\ Len(requests) = 2
    /\ requests[2].params["fields"] = <<(<<"a">>), (<<"b">>)>>
    /\ "jql" \notin DOMAIN requests[2].params

\* C10: against a server that holds a fixed list of N issues, fetch_issues
\* with fetch size F >= 1 returns the N issues in server order, each once,
\* using exactly max(1, ceil(N / F)) requests, and never more.
C10_FixedServer ==
    (op = "fetch_issues" /\ server.mode = "fixed" /\ EndpointGiven
        /\ fetch_size >= 1) =>
        LET N == Len(server.issues)
            needed == Max(1, CeilDiv(N, fetch_size)) IN
        /\ Len(requests) <= needed
        /\ pc = "done" =>
              /\ outcome = "return"
              /\ result = server.issues
              /\ Len(requests) = needed

\* three issues fetched two at a time: a full page and a partial one
C10_Witness ==
    /\ op = "fetch_issues"
    /\ server.mode = "fixed"
    /\ Len(server.issues) = 3
    /\ fetch_size = 2
    /\ outcome = "return"
    /\ Len(requests) = 2
    /\ result = server.issues

\* the value the params_json text gives to key k: that of its last member
\* with this key
C11_ExtraValue(k) ==
    LET toks == params_json.val
        last == CHOOSE i \in DOMAIN toks :
                    /\ toks[i] = Str(k)
                    /\ \A j \in DOMAIN toks : toks[j] = Str(k) => j <= i
    IN toks[last + 2].n

C11_ExtraKeys ==
    IF params_json.some
    THEN {params_json.val[i].s :
              i \in {j \in DOMAIN params_json.val : params_json.val[j].t = "str"}}
    ELSE {}

\* C11: every request of fetch_paginated carries the extra parameters merged
\* over the base {startAt, maxResults} map: each extra key with the extra's
\* value, also when the key is startAt or maxResults, and no other key
\* besides the base ones.
C11_ExtrasOverride ==
    op = "fetch_paginated" =>
        \A i \in 1..Len(requests) :
            /\ DOMAIN requests[i].params = {"startAt", "maxResults"} \cup C11_ExtraKeys
            /\ \A k \in C11_ExtraKeys : requests[i].params[k] = C11_ExtraValue(k)

\* the second request still carries the extra's startAt = 5 although one
\* value has been received
C11_Witness ==
    /\ op = "fetch_paginated"
    /\ C11_ExtraKeys = {"startAt"}
    /\ Len(requests) = 2
    /\ Len(responses[1].json.values) = 1
    /\ start_at = 1
    /\ requests[1].params["startAt"] = 5
    /\ requests[2].params["startAt"] = 5
    /\ requests[2].params["maxResults"] = fetch_size

\* the URL an endpoint resolves to against each base URL:
\* "/some/endpoint" replaces the base path, "rest/api" replaces its last segment
C12_ExpectedUrl ==
    LET host == connection.base_url.netloc IN
    IF endpoint.val.abs
    THEN Url("https", host, TRUE, <<"some", "endpoint">>)
    ELSE IF host = "h.com"
         THEN Url("https", host, TRUE, <<"jira", "rest", "api">>)
         ELSE Url("https", host, TRUE, <<"rest", "api">>)

\* C12: every GET of every operation, on every page, goes to the endpoint
\* resolved against the connection's base URL, with the header
\* Content-Type: application/json and the Basic-auth pair (username, token) of
\* the connection.
C12_RequestShape ==
    \A i \in 1..Len(requests) :
        /\ requests[i].url = C12_ExpectedUrl
        /\ requests[i].headers = [ContentType |-> "application/json"]
        /\ requests[i].auth = <<connection.username, connection.token>>
        /\ requests[i].auth \in {<<"your-username", "your-token">>,
                                 <<"other-username", "other-token">>}

\* three pages fetched from https://h.com/some/endpoint
C12_Witness ==
    /\ op = "fetch_paginated"
    /\ Len(requests) = 3
    /\ connection.base_url.netloc = "h.com"
    /\ requests[3].url = Url("https", "h.com", TRUE, <<"some", "endpoint">>)
    /\ requests[3].auth = <<"other-username", "other-token">>

\* no variable of a call survives it
C13_NothingKept ==
    /\ op = "none"
    /\ endpoint = None(EmptyRef)
    /\ fetch_size = 50
    /\ params_json = None(<<>>)
    /\ fields_str = None(<<>>)
    /\ jql = None("")
    /\ url = NoUrl
    /\ fields = None(<<>>)
    /\ start_at = 0
    /\ has_next
    /\ total_items = 0
    /\ data = <<>>
    /\ fetched_issues = <<>>
    /\ requests = <<>>
    /\ responses = <<>>

\* C13: no step of any fetch operation, succeeding or failing, changes the
\* connection (base URL, username, token) the fetcher holds, and between two
\* calls the fetcher keeps nothing else: a call starts from the same state
\* whether or not calls were made before it.
C13_ConnectionFrame ==
    /\ [](pc = "idle" => C13_NothingKept)
    /\ [][connection' = connection]_vars

\* a later call that fetched two pages from the second connection
C13_Witness ==
    /\ earlier_calls
    /\ op = "fetch_issues"
    /\ outcome = "return"
    /\ Len(requests) = 2
    /\ connection = JiraConnection(Url("https", "h.com", TRUE, <<"jira", "rest">>),
                                   "other-username", "other-token")

\* C16: a fetch_issues call with a non-empty endpoint and fetch size >= 1
\* never ends without a request and takes its first iteration whatever the
\* other arguments are; once a 200 page is received total_items is that
\* page's total, not the fetch size: a first page with total = 0 ends the
\* call after exactly one request.
C16_FirstIteration ==
    (op = "fetch_issues" /\ EndpointGiven /\ fetch_size >= 1) =>
        /\ pc = "done" => Len(requests) >= 1
        /\ (pc = "loop" /\ requests = <<>>) =>
              (start_at = 0 /\ total_items = fetch_size /\ start_at < total_items)
        /\ (Len(responses) >= 1 /\ AllOk) =>
              /\ total_items = responses[Len(responses)].json.total
              /\ pc = "done" =>
                    Len(fetched_issues) >= responses[Len(responses)].json.total
        /\ (Len(responses) >= 1 /\ responses[1].status_code = 200
                /\ responses[1].json.total = 0) =>
              /\ Len(requests) = 1
              /\ pc = "done" => outcome = "return"

\* fetch size 2, first page reports total = 0 and still carries an issue
C16_Witness ==
    /\ op = "fetch_issues"
    /\ fetch_size = 2
    /\ Len(requests) = 1
    /\ responses[1].status_code = 200
    /\ responses[1].json.total = 0
    /\ outcome = "return"
    /\ Len(result) = 1

\* what str.split(",") gives for each fields_str text of the model
C17_SplitOf ==
    IF fields_str.val = <<>> THEN <<(<<>>)>>
    ELSE IF fields_str.val = <<"a">> THEN <<(<<"a">>)>>
    ELSE IF fields_str.val = <<"a", ",">> THEN <<(<<"a">>), (<<>>)>>
    ELSE <<(<<"a">>), (<<"b">>)>>

\* C17 as stated: a fields parameter is sent exactly when fields_str is not
\* None, the empty string included, and its value is fields_str split on ','.
C17_Original ==
    op = "fetch_issues" =>
        \A i \in 1..Len(requests) :
            /\ "fields" \in DOMAIN requests[i].params <=> fields_str.some
            /\ fields_str.some => requests[i].params["fields"] = C17_SplitOf

\* C17 amended: a fields parameter is sent exactly when fields_str is neither
\* None nor the empty string, and its value is fields_str split on ','.
C17_FieldsSent ==
    op = "fetch_issues" =>
        \A i \in 1..Len(requests) :
            /\ "fields" \in DOMAIN requests[i].params
                  <=> (fields_str.some /\ fields_str.val # <<>>)
            /\ "fields" \in DOMAIN requests[i].params
                  => requests[i].params["fields"] = C17_SplitOf

\* "a," is sent as ["a", ""] on both pages
C17_Witness ==
    /\ op = "fetch_issues"
    /\ fields_str = Some(<<"a", ",">>)
    /\ Len(requests) = 2
    /\ requests[2].params["fields"] = <<(<<"a">>), (<<>>)>>

\* response i of a fetch_paginated call is a 200 page with no values and
\* isLast = false
C15_Stalled(i) ==
    /\ responses[i].status_code = 200
    /\ responses[i].json.values = <<>>
    /\ ~responses[i].json.isLast

\* C15, first part: after a stalled page the offset has not advanced and the
\* loop is at its top again: a request that follows carries the same startAt,
\* and while every answer so far is a stalled page the call has neither
\* returned nor raised and its next step is one more request.
C15_StallKeepsOffset ==
    op = "fetch_paginated" =>
        /\ \A i \in 1..Len(responses) :
              C15_Stalled(i) =>
                  IF i = Len(responses)
                  THEN /\ pc = "loop"
                       /\ has_next
                       /\ start_at = C8_ValuesBefore(i)
                  ELSE requests[i + 1].params["startAt"]
                          = requests[i].params["startAt"]
        /\ (Len(responses) >= 1 /\ \A i \in 1..Len(responses) : C15_Stalled(i)) =>
              /\ pc = "loop"
              /\ outcome = "none"
              /\ start_at = 0
              /\ ~ENABLED fetch_paginated_return
              /\ Len(requests) < MaxPages => ENABLED fetch_paginated_page

\* the last response ends the loop: isLast = true or a status other than 200
C15_ServerEnded ==
    /\ op = "fetch_paginated"
    /\ Len(responses) >= 1
    /\ \/ responses[Len(responses)].status_code # 200
       \/ responses[Len(responses)].json.isLast

\* C15: a stalled page leaves the call re-requesting the same offset, for as
\* long as the server answers that way; once the server answers with
\* isLast = true or a non-200 status the call terminates (returns or raises).
C15_StallOrTerminate ==
    /\ []C15_StallKeepsOffset
    /\ C15_ServerEnded ~> (pc = "done" /\ outcome \in {"return", "raise"})

\* three stalled pages in a row, all requested at offset 0
C15_Witness ==
    /\ op = "fetch_paginated"
    /\ Len(responses) = 3
    /\ \A i \in 1..3 : C15_Stalled(i) /\ requests[i].params["startAt"] = 0
    /\ pc = "loop"
    /\ start_at = 0

\* response i of a fetch_issues call is a 200 page with no issues whose total
\* is greater than the startAt it was requested with
C18_Stalled(i) ==
    /\ responses[i].status_code = 200
    /\ responses[i].json.issues = <<>>
    /\ responses[i].json.total > requests[i].params["startAt"]

\* C18, second part: after a stalled page the loop is at its top again with the
\* same start_at and a true loop condition: a request that follows carries
\* the same startAt, and the next step is one more request, never the return.
C18_StallKeepsOffset ==
    op = "fetch_issues" =>
        \A i \in 1..Len(responses) :
            C18_Stalled(i) =>
                IF i = Len(responses)
                THEN /\ pc = "loop"
                     /\ outcome = "none"
                     /\ start_at = requests[i].params["startAt"]
                     /\ start_at < total_items
                     /\ ~ENABLED fetch_issues_return
                     /\ Len(requests) < MaxIssuePages => ENABLED fetch_issues_page
                ELSE requests[i + 1].params["startAt"]
                        = requests[i].params["startAt"]

C18_SomeStalled ==
    op = "fetch_issues" /\ \E i \in 1..Len(responses) : C18_Stalled(i)

\* C18: fetch_issues terminates (returns or raises) unless it has received a
\* stalled page, the totals being at most MaxTotal (which the MaxIssuePages
\* requests of the model suffice for); a stalled page leaves it re-requesting
\* the same startAt for as long as the server answers that way.
C18_TerminatesUnlessStalled ==
    /\ []C18_StallKeepsOffset
    /\ (op = "fetch_issues" /\ pc = "loop")
          ~> ((pc = "done" /\ outcome \in {"return", "raise"}) \/ C18_SomeStalled)

\* two stalled pages in a row, both requested at startAt = 0
C18_Witness ==
    /\ op = "fetch_issues"
    /\ Len(responses) = 2
    /\ C18_Stalled(1)
    /\ C18_Stalled(2)
    /\ requests[1].params["startAt"] = 0
    /\ requests[2].params["startAt"] = 0
    /\ pc = "loop"
    /\ start_at = 0

\* the frame a call has when it runs alone and has received resps, in order
\* (pc "never": a call running alone does not get to receive them)
RECURSIVE C14_Alone(_, _, _)
C14_Alone(conn, fr0, resps) ==
    IF resps = <<>>
    THEN fr0
    ELSE LET prev == C14_Alone(conn, fr0, SubSeq(resps, 1, Len(resps) - 1))
         IN IF prev.pc = "loop" /\ FrameLoops(prev, prev.start_at)
            THEN FrameResponse(FrameRequest(conn, prev, prev.start_at),
                               resps[Len(resps)], prev.start_at)
            ELSE [prev EXCEPT !.pc = "never"]

C14_AloneOf(t) ==
    C14_Alone(connection,
              NewFrame(connection, frames[t].op, ConcEndpoint, frames[t].fetch_size),
              frames[t].responses)

\* the call of thread t is where a call running alone is with its responses:
\* same offset, same accumulated list, same requests, same outcome
C14_RunsAsAlone(t) ==
    LET fr == frames[t]
        alone == C14_AloneOf(t)
    IN \/ fr.pc = "idle"
       \/ fr = alone
       \/ /\ fr.pc = "wait"
          /\ alone.pc = "loop"
          /\ FrameLoops(alone, alone.start_at)
          /\ fr = FrameRequest(connection, alone, alone.start_at)
       \/ /\ fr.pc = "done"
          /\ alone.pc = "loop"
          /\ ~FrameLoops(alone, alone.start_at)
          /\ fr = FrameReturn(alone)

C14_OwnFrameOnly ==
    /\ connection' = connection
    /\ \A t \in Threads :
        frames'[t] # frames[t] =>
            \A u \in Threads \ {t} : frames'[u] = frames[u]

\* C14: under every interleaving of two calls on one fetcher, each call's
\* offset, accumulated list, requests and outcome are those of a call that
\* runs alone and receives the same responses; a step of one call changes
\* neither the connection nor the other call's frame.
C14_NoInterference ==
    /\ [](\A t \in Threads : C14_RunsAsAlone(t))
    /\ [][C14_OwnFrameOnly]_vars

\* both calls have a request in flight, the first at offset 1 after one page,
\* the second at offset 0 after a page that brought nothing
C14_Witness ==
    /\ frames[1].op = "fetch_paginated"
    /\ frames[1].pc = "wait"
    /\ Len(frames[1].requests) = 2
    /\ frames[1].requests[2].params["startAt"] = 1
    /\ frames[2].op = "fetch_issues"
    /\ frames[2].pc = "wait"
    /\ Len(frames[2].requests) = 2
    /\ frames[2].requests[2].params["startAt"] = 0

====
